---- MODULE Spec2Model ----
(***************************************************************************)
(* Payment service: the adapter registry (AdapterManager), its convenience *)
(* pass-through operations, and the two adapters it routes to              *)
(* (CustomAdapter, StripeAdapter).                                         *)
(***************************************************************************)
EXTENDS Integers, Sequences, FiniteSets, TLC

(* ------------------------------ bounds -------------------------------- *)

\* Names beyond the service's own two under which adapters get registered.
MaxBackups == 1

\* How many calls the journal follows.
MaxJournal == 5

\* How many customers the processor is followed up to.
MaxCustomers == 3

\* How many webhook deliveries are followed.
MaxDeliveries == 3

(* ------------------------------ values -------------------------------- *)

\* Python's None.
None == "<None>"

\* "backup1", "backup2", ...
BackupNames == {"backup" \o ToString(i) : i \in 1..MaxBackups}

\* Adapter names a caller may pass (strings).
Names == {"", "custom", "Custom", "stripe"} \cup BackupNames

\* str.lower() on the names above.
Lower(name) == IF name = "Custom" THEN "custom" ELSE name

\* Python truthiness of an Optional[str]: None and "" are falsy.
Falsy(x) == x = None \/ x = ""

\* isinstance(name, str)
IsStr(name) == name \in Names

\* Adapter objects: one CustomAdapter instance and one StripeAdapter instance.
CustomAdapters == {"custom_adapter"}
StripeAdapters == {"stripe_adapter"}
Adapters == CustomAdapters \cup StripeAdapters

\* An object that is not a PaymentAdapter.
NotAdapter == "obj"

\* isinstance(adapter, PaymentAdapter)
IsPaymentAdapter(o) == o \in Adapters

\* StripeAdapter objects a process can construct.
StripeInstances == {"stripe_1", "stripe_2"}

\* The callers that can be inside create_or_update_customer at once (worker
\* processes of the service).
Callers == {"worker_1", "worker_2"}

\* A caller that is not inside create_or_update_customer.
NoLookup == [step |-> "idle", email |-> None, user_id |-> None,
             found |-> None]

(* ---------------- dict with insertion order (self._adapters) ---------- *)

\* list(d.keys())
Keys(d) == [i \in 1..Len(d) |-> d[i].name]

\* set(d.keys())
KeySet(d) == {d[i].name : i \in 1..Len(d)}

\* k in d
HasKey(d, k) == k \in KeySet(d)

\* position of key k in d
IndexOf(d, k) == CHOOSE i \in 1..Len(d) : d[i].name = k

\* d[k]
DictGet(d, k) == d[IndexOf(d, k)].adapter

\* A store that keeps the value already held by an existing key.
DictSetKeepOld(d, k, v) ==
    IF HasKey(d, k) THEN d ELSE Append(d, [name |-> k, adapter |-> v])

\* d[k] = v: an existing key keeps its position, a new key goes last.
DictSet(d, k, v) ==
    IF HasKey(d, k)
    THEN [d EXCEPT ![IndexOf(d, k)] = [name |-> k, adapter |-> v]]
    ELSE Append(d, [name |-> k, adapter |-> v])

\* del d[k]
DictDel(d, k) == SelectSeq(d, LAMBDA e : e.name # k)

(* ------------------------------ state --------------------------------- *)

VARIABLES
    adapters,         \* AdapterManager._adapters
    default_adapter,  \* AdapterManager._default_adapter
    call,             \* the last call made, with its arguments
    result,           \* what that call returned or raised
    before,           \* history: _adapters and _default_adapter before that call
    insertedBefore,   \* history: <<a, b>> when key a was inserted before key b
                      \*          (both still registered)
    lastRegistered,   \* history: key -> adapter last registered under it
                      \*          (None: none since its last removal)
    expected_signature, \* CustomAdapter.expected_signature
    invoked,          \* the adapter methods that call ran, in order
    trace,            \* the steps webhook_verify took on the payload, in order
    journal,          \* history: the calls made on one manager since it was
                      \*          constructed, each with its result
    stripe_api_key,   \* stripe.api_key, one per process
    stripe_max_network_retries, \* stripe.max_network_retries, one per process
    stripe_api_version, \* stripe.api_version, one per process
    webhook_secret,   \* StripeAdapter instance -> self.webhook_secret
                      \*          (None: not constructed)
    constructed_with, \* history: StripeAdapter instance -> the api_key its
                      \*          __init__ was given
    requests,         \* the requests the last call sent to the processor
    customers,        \* the processor's customers, in order of creation
    inflight,         \* caller -> its create_or_update_customer in progress
    config            \* the Stripe credentials startup_event read from config
                      \*          (started: startup_event has run)

vars == <<adapters, default_adapter, call, result, before, insertedBefore,
          lastRegistered, expected_signature, invoked, trace, journal,
          stripe_api_key, stripe_max_network_retries, stripe_api_version,
          webhook_secret, constructed_with, requests, customers, inflight,
          config>>

RegistryKeys == {Lower(n) : n \in Names}

\* A call record: every field is present in every call, None when unused.
NoCall == [op |-> "init", name |-> None, adapter |-> None, flag |-> FALSE,
           amount |-> 0, currency |-> None, customer_id |-> None,
           payment_id |-> None, payload |-> None, sig_header |-> None,
           outcome |-> None, instance |-> None, opt_amount |-> <<>>,
           bypass_kyc |-> FALSE, admin_override |-> FALSE, email |-> None,
           user_id |-> None, api_key |-> None, webhook_secret |-> None,
           link_outcome |-> None]

\* A result record: kind is "ok" or the exception class raised.
NoResult == [kind |-> "ok", adapter |-> None, bool |-> FALSE,
             names |-> <<>>, default |-> None, count |-> 0,
             id |-> None, status |-> None, amount |-> None,
             currency |-> None, type |-> None, data |-> None,
             onboarding_url |-> None, kyc_bypassed |-> None]

Raise(kind) == [NoResult EXCEPT !.kind = kind]

(* --------------------------- AdapterManager --------------------------- *)

\* AdapterManager.__init__
Init ==
    /\ adapters = <<>>
    /\ default_adapter = None
    /\ call = NoCall
    /\ result = NoResult
    /\ before = [adapters |-> <<>>, default |-> None]
    /\ insertedBefore = {}
    /\ lastRegistered = [k \in RegistryKeys |-> None]
    /\ expected_signature = "test_signature"
    /\ invoked = <<>>
    /\ trace = <<>>
    /\ journal = <<>>
    /\ stripe_api_key = None
    /\ stripe_max_network_retries = 0
    /\ stripe_api_version = None
    /\ webhook_secret = [i \in StripeInstances |-> None]
    /\ constructed_with = [i \in StripeInstances |-> None]
    /\ requests = <<>>
    /\ customers = <<>>
    /\ inflight = [p \in Callers |-> NoLookup]
    /\ config = [started |-> FALSE, STRIPE_SECRET_KEY |-> None,
                 STRIPE_WEBHOOK_SECRET |-> None]

\* A call on the registry itself runs no adapter method.
NoAdapterRun ==
    /\ invoked' = <<>>
    /\ trace' = <<>>
    /\ UNCHANGED expected_signature

\* The registry as the call about to run finds it.
Remember == before' = [adapters |-> adapters, default |-> default_adapter]

\* A default rule that honours only the flag.
DefaultOnRegisterFlagOnly(newAdapters, oldDefault, name, set_as_default) ==
    IF set_as_default THEN Lower(name) ELSE oldDefault

\* A default rule under which the latest registration always wins.
DefaultOnRegisterLatestWins(newAdapters, oldDefault, name, set_as_default) ==
    Lower(name)

\* register_adapter: the default after the adapter was stored.
DefaultOnRegister(newAdapters, oldDefault, name, set_as_default) ==
    IF set_as_default \/ (Len(newAdapters) = 1 /\ Falsy(oldDefault))
    THEN Lower(name)
    ELSE oldDefault

\* A registration that stores the adapter before validating it.
RegisterOutcomeStoreFirst(d, def, name, adapter, set_as_default) ==
    IF Falsy(name) \/ ~IsStr(name)
    THEN [kind |-> "ValueError", adapters |-> d, default |-> def]
    ELSE IF ~IsPaymentAdapter(adapter)
    THEN [kind |-> "ValueError",
          adapters |-> DictSet(d, Lower(name), adapter), default |-> def]
    ELSE [kind |-> "ok",
          adapters |-> DictSet(d, Lower(name), adapter),
          default |-> DefaultOnRegister(DictSet(d, Lower(name), adapter),
                                        def, name, set_as_default)]

\* register_adapter: the outcome and the registry it leaves.
RegisterOutcome(d, def, name, adapter, set_as_default) ==
    IF Falsy(name) \/ ~IsStr(name)
    THEN [kind |-> "ValueError", adapters |-> d, default |-> def]
    ELSE IF ~IsPaymentAdapter(adapter)
    THEN [kind |-> "ValueError", adapters |-> d, default |-> def]
    ELSE [kind |-> "ok",
          adapters |-> DictSet(d, Lower(name), adapter),
          default |-> DefaultOnRegister(DictSet(d, Lower(name), adapter),
                                        def, name, set_as_default)]

register_adapter(name, adapter, set_as_default) ==
    LET out == RegisterOutcome(adapters, default_adapter, name, adapter,
                               set_as_default)
        key == Lower(name)
        fresh == out.kind = "ok" /\ ~HasKey(adapters, key)
    IN  /\ adapters' = out.adapters
        /\ default_adapter' = out.default
        /\ call' = [NoCall EXCEPT !.op = "register_adapter", !.name = name,
                                  !.adapter = adapter, !.flag = set_as_default]
        /\ result' = Raise(out.kind)
        /\ Remember
        /\ NoAdapterRun
        /\ insertedBefore' =
               IF fresh
               THEN insertedBefore \cup {<<k, key>> : k \in KeySet(adapters)}
               ELSE insertedBefore
        /\ lastRegistered' = IF out.kind = "ok"
                             THEN [lastRegistered EXCEPT ![key] = adapter]
                             ELSE lastRegistered

\* A lookup that takes the default without checking that one is set, so
\* that None.lower() fails.
GetAdapterUncheckedDefault(d, def, name) ==
    IF name = None /\ Falsy(def)
    THEN Raise("AttributeError")
    ELSE LET adapter_name == Lower(IF name = None THEN def ELSE name)
         IN  IF ~HasKey(d, adapter_name)
             THEN Raise("ValidationError")
             ELSE [NoResult EXCEPT !.adapter = DictGet(d, adapter_name)]

\* get_adapter: the adapter returned, or the error raised.
GetAdapter(d, def, name) ==
    IF name = None /\ Falsy(def)
    THEN Raise("ValidationError")
    ELSE LET n == IF name = None THEN def ELSE name
             adapter_name == Lower(n)
         IN  IF ~HasKey(d, adapter_name)
             THEN Raise("ValidationError")
             ELSE [NoResult EXCEPT !.adapter = DictGet(d, adapter_name)]

get_adapter(name) ==
    /\ call' = [NoCall EXCEPT !.op = "get_adapter", !.name = name]
    /\ result' = GetAdapter(adapters, default_adapter, name)
    /\ Remember
    /\ NoAdapterRun
    /\ UNCHANGED <<adapters, default_adapter, insertedBefore, lastRegistered>>

\* has_adapter
HasAdapter(d, name) == HasKey(d, Lower(name))

has_adapter(name) ==
    /\ call' = [NoCall EXCEPT !.op = "has_adapter", !.name = name]
    /\ result' = [NoResult EXCEPT !.bool = HasAdapter(adapters, name)]
    /\ Remember
    /\ NoAdapterRun
    /\ UNCHANGED <<adapters, default_adapter, insertedBefore, lastRegistered>>

\* list_adapters
ListAdapters(d, def) ==
    [NoResult EXCEPT !.names = Keys(d), !.default = def, !.count = Len(d)]

list_adapters ==
    /\ call' = [NoCall EXCEPT !.op = "list_adapters"]
    /\ result' = ListAdapters(adapters, default_adapter)
    /\ Remember
    /\ NoAdapterRun
    /\ UNCHANGED <<adapters, default_adapter, insertedBefore, lastRegistered>>

\* A removal that promotes the adapter registered last.
DefaultOnRemovePromoteLast(rest, oldDefault, adapter_name) ==
    IF oldDefault = adapter_name
    THEN IF Len(rest) > 0 THEN rest[Len(rest)].name ELSE None
    ELSE oldDefault

\* A removal that leaves the default marker as it was.
DefaultOnRemoveKeep(rest, oldDefault, adapter_name) == oldDefault

\* remove_adapter: the default after the adapter was deleted;
\* next(iter(d.keys())) is the first key in insertion order.
DefaultOnRemove(rest, oldDefault, adapter_name) ==
    IF oldDefault = adapter_name
    THEN IF Len(rest) > 0 THEN rest[1].name ELSE None
    ELSE oldDefault

\* remove_adapter: the outcome and the registry it leaves.
RemoveOutcome(d, def, name) ==
    LET adapter_name == Lower(name)
    IN  IF ~HasKey(d, adapter_name)
        THEN [kind |-> "ValidationError", adapters |-> d, default |-> def]
        ELSE [kind |-> "ok",
              adapters |-> DictDel(d, adapter_name),
              default |-> DefaultOnRemove(DictDel(d, adapter_name), def,
                                          adapter_name)]

remove_adapter(name) ==
    LET out == RemoveOutcome(adapters, default_adapter, name)
        key == Lower(name)
    IN  /\ adapters' = out.adapters
        /\ default_adapter' = out.default
        /\ call' = [NoCall EXCEPT !.op = "remove_adapter", !.name = name]
        /\ result' = Raise(out.kind)
        /\ Remember
        /\ NoAdapterRun
        /\ insertedBefore' =
               IF out.kind = "ok"
               THEN {p \in insertedBefore : p[1] # key /\ p[2] # key}
               ELSE insertedBefore
        /\ lastRegistered' = IF out.kind = "ok"
                             THEN [lastRegistered EXCEPT ![key] = None]
                             ELSE lastRegistered

(* ------------------------------ inputs -------------------------------- *)

\* A keyword argument the caller did not pass.
Absent == "<absent>"

\* Payment amounts (whole-number Decimals).
Amounts == {-1, 0, 10}

\* str(amount) of a whole-number Decimal.
DecimalStr(amount) ==
    CASE amount = -1 -> "-1"
      [] amount = 0 -> "0"
      [] amount = 10 -> "10"

\* int(amount): a whole-number Decimal is the same number as an int.
ToInt(amount) == amount

Currencies == {"usd"}
PaymentIds == {"custom_mock"}
CustomerIds == {Absent, "cus_1"}

\* Raw webhook bodies:
\*   ping          {"type":"ping","data":{"x":1}}
\*   empty_object  {}
\*   stripe_event  {"id":"evt_1","type":"payment_intent.succeeded","created":1,
\*                  "livemode":false,"data":{"object":{"id":"pi_1",...}}}
\*   json_list     [1]
\*   not_json      hello
\*   bad_utf8      \xff
Payloads == {"ping", "empty_object", "stripe_event", "json_list", "not_json",
             "bad_utf8"}

\* payload.decode("utf-8") succeeds
PayloadIsUtf8(p) == p # "bad_utf8"

\* json.loads succeeds on the decoded text
PayloadIsJson(p) == p \in {"ping", "empty_object", "stripe_event", "json_list"}

\* the parsed JSON is a dict
PayloadIsObject(p) == p \in {"ping", "empty_object", "stripe_event"}

\* data.get("type", "unknown") on the parsed dict
PayloadType(p) ==
    CASE p = "ping" -> "ping"
      [] p = "stripe_event" -> "payment_intent.succeeded"
      [] OTHER -> "unknown"

\* data.get("data", {}) on the parsed dict
PayloadData(p) ==
    CASE p = "ping" -> "{x: 1}"
      [] p = "stripe_event" -> "{object: {id: pi_1}}"
      [] OTHER -> "{}"

\* Signature header values; "stripe_sig" is a Stripe-Signature header that
\* carries a valid HMAC of the payload under the adapter's webhook secret.
SigHeaders == {None, "", "test_signature", "wrong", "stripe_sig"}

(* --------------------------- CustomAdapter ---------------------------- *)

\* CustomAdapter.__init__(expected_signature)
custom_adapter_init(sig) ==
    /\ expected_signature' = sig
    /\ call' = [NoCall EXCEPT !.op = "CustomAdapter", !.sig_header = sig]
    /\ result' = [NoResult EXCEPT !.adapter = "custom_adapter"]
    /\ invoked' = <<>>
    /\ trace' = <<>>
    /\ Remember
    /\ UNCHANGED <<adapters, default_adapter, insertedBefore, lastRegistered>>

\* A create_payment that reports the new payment in the normalized
\* vocabulary.
CustomCreatePaymentPending(amount, currency) ==
    [NoResult EXCEPT !.id = "custom_mock", !.amount = DecimalStr(amount),
                     !.currency = currency, !.status = "pending"]

\* CustomAdapter.create_payment
CustomCreatePayment(amount, currency) ==
    [NoResult EXCEPT !.id = "custom_mock", !.amount = DecimalStr(amount),
                     !.currency = currency, !.status = "created"]

\* CustomAdapter.capture_payment
CustomCapturePayment(payment_id) ==
    [NoResult EXCEPT !.id = payment_id, !.status = "captured"]

\* CustomAdapter.refund_payment
CustomRefundPayment(payment_id) ==
    [NoResult EXCEPT !.id = payment_id, !.status = "refunded"]

\* CustomAdapter.cancel_payment
CustomCancelPayment(payment_id) ==
    [NoResult EXCEPT !.id = payment_id, !.status = "cancelled"]

\* A get_payment_status that answers with an empty result.
BaseGetPaymentStatusEmpty(payment_id) == NoResult

\* PaymentAdapter.get_payment_status, which CustomAdapter inherits
BaseGetPaymentStatus(payment_id) == Raise("NotImplementedError")

\* A webhook_verify that decodes and parses the body first and compares the
\* signature last.
CustomWebhookVerifyParseFirst(payload, sig_header, expected) ==
    IF ~PayloadIsUtf8(payload)
    THEN [result |-> Raise("WebhookError"), trace |-> <<"decode">>]
    ELSE IF ~PayloadIsJson(payload)
    THEN [result |-> Raise("WebhookError"),
          trace |-> <<"decode", "json_loads">>]
    ELSE IF Falsy(sig_header) \/ sig_header # expected
    THEN [result |-> Raise("WebhookError"),
          trace |-> <<"decode", "json_loads", "check_signature">>]
    ELSE IF ~PayloadIsObject(payload)
    THEN [result |-> Raise("AttributeError"),
          trace |-> <<"decode", "json_loads", "check_signature", "extract">>]
    ELSE [result |-> [NoResult EXCEPT !.type = PayloadType(payload),
                                      !.data = PayloadData(payload)],
          trace |-> <<"decode", "json_loads", "check_signature", "extract">>]

\* A webhook_verify that only checks that a signature is present and never
\* compares it with the expected one.
CustomWebhookVerifyAnySignature(payload, sig_header, expected) ==
    IF Falsy(sig_header)
    THEN [result |-> Raise("WebhookError"), trace |-> <<"check_signature">>]
    ELSE IF ~PayloadIsUtf8(payload)
    THEN [result |-> Raise("WebhookError"),
          trace |-> <<"check_signature", "decode">>]
    ELSE IF ~PayloadIsJson(payload)
    THEN [result |-> Raise("WebhookError"),
          trace |-> <<"check_signature", "decode", "json_loads">>]
    ELSE IF ~PayloadIsObject(payload)
    THEN [result |-> Raise("AttributeError"),
          trace |-> <<"check_signature", "decode", "json_loads", "extract">>]
    ELSE [result |-> [NoResult EXCEPT !.type = PayloadType(payload),
                                      !.data = PayloadData(payload)],
          trace |-> <<"check_signature", "decode", "json_loads", "extract">>]

\* A webhook_verify that remembers the bodies it has accepted and refuses a
\* second delivery of one.
CustomWebhookVerifyOnce(payload, sig_header, expected) ==
    IF Falsy(sig_header)
    THEN [result |-> Raise("WebhookError"), trace |-> <<"check_signature">>]
    ELSE IF sig_header # expected
    THEN [result |-> Raise("WebhookError"), trace |-> <<"check_signature">>]
    ELSE IF \E i \in 1..Len(journal) :
                journal[i].payload = payload /\ journal[i].kind = "ok"
    THEN [result |-> Raise("WebhookError"), trace |-> <<"check_signature">>]
    ELSE IF ~PayloadIsUtf8(payload)
    THEN [result |-> Raise("WebhookError"),
          trace |-> <<"check_signature", "decode">>]
    ELSE IF ~PayloadIsJson(payload)
    THEN [result |-> Raise("WebhookError"),
          trace |-> <<"check_signature", "decode", "json_loads">>]
    ELSE IF ~PayloadIsObject(payload)
    THEN [result |-> Raise("AttributeError"),
          trace |-> <<"check_signature", "decode", "json_loads", "extract">>]
    ELSE [result |-> [NoResult EXCEPT !.type = PayloadType(payload),
                                      !.data = PayloadData(payload)],
          trace |-> <<"check_signature", "decode", "json_loads", "extract">>]

\* CustomAdapter.webhook_verify: the result and the steps taken, in order.
CustomWebhookVerify(payload, sig_header, expected) ==
    IF Falsy(sig_header)
    THEN [result |-> Raise("WebhookError"), trace |-> <<"check_signature">>]
    ELSE IF sig_header # expected
    THEN [result |-> Raise("WebhookError"), trace |-> <<"check_signature">>]
    ELSE IF ~PayloadIsUtf8(payload)
    THEN [result |-> Raise("WebhookError"),
          trace |-> <<"check_signature", "decode">>]
    ELSE IF ~PayloadIsJson(payload)
    THEN [result |-> Raise("WebhookError"),
          trace |-> <<"check_signature", "decode", "json_loads">>]
    ELSE IF ~PayloadIsObject(payload)
    THEN [result |-> Raise("AttributeError"),
          trace |-> <<"check_signature", "decode", "json_loads", "extract">>]
    ELSE [result |-> [NoResult EXCEPT !.type = PayloadType(payload),
                                      !.data = PayloadData(payload)],
          trace |-> <<"check_signature", "decode", "json_loads", "extract">>]

(* --------------------------- StripeAdapter ---------------------------- *)

\* What a request to the processor can come back with: "ok", or a StripeError
\* of one of the classes the adapter imports, with its http_status.
ProcessorOutcomes ==
    {"ok", "CardError", "InvalidRequestError", "InvalidRequestError404",
     "AuthenticationError", "RateLimitError", "APIConnectionError",
     "StripeError"}

\* type(e).__name__
ErrorClass(outcome) ==
    IF outcome = "InvalidRequestError404" THEN "InvalidRequestError"
    ELSE outcome

\* e.http_status (0: None)
HttpStatus(outcome) ==
    CASE outcome = "CardError" -> 402
      [] outcome = "InvalidRequestError" -> 400
      [] outcome = "InvalidRequestError404" -> 404
      [] outcome = "AuthenticationError" -> 401
      [] outcome = "RateLimitError" -> 429
      [] outcome = "StripeError" -> 500
      [] OTHER -> 0

\* The status the processor reports on the object it returns.
ProcessorStatus(op) ==
    CASE op = "create_payment" -> "requires_payment_method"
      [] op = "capture_payment" -> "succeeded"
      [] op = "refund_payment" -> "succeeded"
      [] op = "cancel_payment" -> "canceled"
      [] OTHER -> "requires_capture"

\* StripeAdapter.create_payment; customer_id has no default, so a call
\* without it fails before the body runs.
StripeCreatePayment(amount, currency, customer_id, outcome) ==
    IF customer_id = Absent
    THEN Raise("TypeError")
    ELSE IF outcome = "ok"
    THEN [NoResult EXCEPT !.id = "pi_1",
                          !.amount = DecimalStr(ToInt(amount)),
                          !.currency = Lower(currency),
                          !.status = ProcessorStatus("create_payment")]
    ELSE IF ErrorClass(outcome) = "CardError"
    THEN Raise("InsufficientFundsError")
    ELSE Raise("PaymentError")

\* A capture_payment that looks at the class of the error before its
\* http_status.
StripeCapturePaymentClassFirst(payment_id, outcome) ==
    IF outcome = "ok"
    THEN [NoResult EXCEPT !.id = payment_id,
                          !.status = ProcessorStatus("capture_payment")]
    ELSE IF ErrorClass(outcome) = "InvalidRequestError"
    THEN Raise("ValidationError")
    ELSE IF ErrorClass(outcome) = "AuthenticationError"
    THEN Raise("AuthenticationError")
    ELSE IF HttpStatus(outcome) = 404
    THEN Raise("PaymentNotFoundError")
    ELSE Raise("PaymentProcessingError")

\* StripeAdapter.capture_payment
StripeCapturePayment(payment_id, outcome) ==
    IF outcome = "ok"
    THEN [NoResult EXCEPT !.id = payment_id,
                          !.status = ProcessorStatus("capture_payment")]
    ELSE IF HttpStatus(outcome) = 404
    THEN Raise("PaymentNotFoundError")
    ELSE IF ErrorClass(outcome) = "InvalidRequestError"
    THEN Raise("ValidationError")
    ELSE IF ErrorClass(outcome) = "AuthenticationError"
    THEN Raise("AuthenticationError")
    ELSE Raise("PaymentProcessingError")

\* StripeAdapter.refund_payment
StripeRefundPayment(payment_intent_id, outcome) ==
    IF outcome = "ok"
    THEN [NoResult EXCEPT !.id = "re_1",
                          !.status = ProcessorStatus("refund_payment")]
    ELSE Raise("PaymentError")

\* StripeAdapter.cancel_payment
StripeCancelPayment(payment_intent_id, outcome) ==
    IF outcome = "ok"
    THEN [NoResult EXCEPT !.id = payment_intent_id,
                          !.status = ProcessorStatus("cancel_payment")]
    ELSE Raise("PaymentError")

\* StripeAdapter.get_payment_status
StripeGetPaymentStatus(payment_intent_id, outcome) ==
    IF outcome = "ok"
    THEN [NoResult EXCEPT !.id = payment_intent_id,
                          !.status = ProcessorStatus("get_payment_status")]
    ELSE IF HttpStatus(outcome) = 404
    THEN Raise("PaymentNotFoundError")
    ELSE Raise("PaymentError")

\* The header verifies against the payload under self.webhook_secret.
StripeSignatureValid(payload, sig_header) == sig_header = "stripe_sig"

\* stripe.Webhook.construct_event (the processor's SDK): with a header that
\* does not verify it raises, SignatureVerificationError or another
\* exception; with one that verifies it returns the event, or raises on a
\* body it cannot build an event from.
ConstructEventOutcomes(payload, sig_header) ==
    IF ~StripeSignatureValid(payload, sig_header)
    THEN {"SignatureVerificationError", "Exception"}
    ELSE IF PayloadIsUtf8(payload) /\ PayloadIsObject(payload)
    THEN {"event"}
    ELSE {"Exception"}

\* event["id"], event["type"], event["created"], event["livemode"] and
\* event["data"]["object"] are all present.
EventHasFields(payload) == payload = "stripe_event"

\* StripeAdapter._extract_webhook_data on the event's object
ExtractWebhookData(event_type, payload) ==
    IF event_type = "payment_intent.succeeded"
    THEN "{id: pi_1, amount, currency, customer, status, metadata}"
    ELSE "{id, object, created, livemode}"

\* StripeAdapter.webhook_verify: the result and the steps taken, in order.
StripeWebhookVerify(payload, sig_header, outcome) ==
    IF outcome = "SignatureVerificationError"
    THEN [result |-> Raise("ValidationError"),
          trace |-> <<"construct_event">>]
    ELSE IF outcome = "Exception"
    THEN [result |-> Raise("PaymentError"), trace |-> <<"construct_event">>]
    ELSE IF ~EventHasFields(payload)
    THEN [result |-> Raise("PaymentError"),
          trace |-> <<"construct_event", "extract">>]
    ELSE [result |-> [NoResult EXCEPT
                         !.id = "evt_1",
                         !.type = PayloadType(payload),
                         !.data = ExtractWebhookData(PayloadType(payload),
                                                     payload)],
          trace |-> <<"construct_event", "extract">>]

(* --------------------------- status helpers --------------------------- *)

\* The values of status_mapping in normalize_payment_status.
NormalizedStatuses ==
    {"pending", "processing", "authorized", "completed", "failed",
     "cancelled", "refunded", "partially_refunded"}

\* normalize_payment_status(status); no adapter calls it.
normalize_payment_status(status) ==
    CASE Lower(status) \in {"pending", "requires_payment_method",
                            "requires_confirmation", "requires_action"}
           -> "pending"
      [] Lower(status) = "processing" -> "processing"
      [] Lower(status) \in {"succeeded", "completed"} -> "completed"
      [] Lower(status) \in {"failed", "payment_failed"} -> "failed"
      [] Lower(status) \in {"canceled", "cancelled"} -> "cancelled"
      [] Lower(status) = "refunded" -> "refunded"
      [] Lower(status) = "partially_refunded" -> "partially_refunded"
      [] Lower(status) = "requires_capture" -> "authorized"
      [] OTHER -> Lower(status)

(* ------------------- adapter methods, by dispatch --------------------- *)

\* The external outcomes a method of this adapter can meet with these
\* arguments: a processor or SDK answer for StripeAdapter, none for
\* CustomAdapter.
Outcomes(adapter, op, c) ==
    IF adapter \in CustomAdapters THEN {None}
    ELSE IF op = "webhook_verify"
    THEN ConstructEventOutcomes(c.payload, c.sig_header)
    ELSE IF op = "create_payment" /\ c.customer_id = Absent
    THEN {None}
    ELSE ProcessorOutcomes

\* adapter.<op>(...) with the arguments of call c.
AdapterCall(adapter, op, c, expected) ==
    IF adapter \in CustomAdapters
    THEN CASE op = "create_payment" ->
                [result |-> CustomCreatePayment(c.amount, c.currency),
                 trace |-> <<>>]
           [] op = "capture_payment" ->
                [result |-> CustomCapturePayment(c.payment_id), trace |-> <<>>]
           [] op = "refund_payment" ->
                [result |-> CustomRefundPayment(c.payment_id), trace |-> <<>>]
           [] op = "cancel_payment" ->
                [result |-> CustomCancelPayment(c.payment_id), trace |-> <<>>]
           [] op = "webhook_verify" ->
                CustomWebhookVerify(c.payload, c.sig_header, expected)
           [] op = "get_payment_status" ->
                [result |-> BaseGetPaymentStatus(c.payment_id), trace |-> <<>>]
    ELSE CASE op = "create_payment" ->
                [result |-> StripeCreatePayment(c.amount, c.currency,
                                                c.customer_id, c.outcome),
                 trace |-> <<>>]
           [] op = "capture_payment" ->
                [result |-> StripeCapturePayment(c.payment_id, c.outcome),
                 trace |-> <<>>]
           [] op = "refund_payment" ->
                [result |-> StripeRefundPayment(c.payment_id, c.outcome),
                 trace |-> <<>>]
           [] op = "cancel_payment" ->
                [result |-> StripeCancelPayment(c.payment_id, c.outcome),
                 trace |-> <<>>]
           [] op = "webhook_verify" ->
                StripeWebhookVerify(c.payload, c.sig_header, c.outcome)
           [] op = "get_payment_status" ->
                [result |-> StripeGetPaymentStatus(c.payment_id, c.outcome),
                 trace |-> <<>>]

\* One entry of the invocation log: the adapter, the method, the arguments.
Invocation(adapter, op, c) ==
    [adapter |-> adapter, op |-> op, amount |-> c.amount,
     currency |-> c.currency, customer_id |-> c.customer_id,
     payment_id |-> c.payment_id, payload |-> c.payload,
     sig_header |-> c.sig_header]

\* adapter.webhook_verify(payload, sig_header), called on the adapter itself.
adapter_webhook_verify(adapter, payload, sig_header) ==
    LET c0 == [NoCall EXCEPT !.op = "adapter.webhook_verify",
                             !.adapter = adapter, !.payload = payload,
                             !.sig_header = sig_header]
    IN  \E outcome \in Outcomes(adapter, "webhook_verify", c0) :
            LET c == [c0 EXCEPT !.outcome = outcome]
                run == AdapterCall(adapter, "webhook_verify", c,
                                   expected_signature)
            IN  /\ call' = c
                /\ result' = run.result
                /\ trace' = run.trace
                /\ invoked' = <<Invocation(adapter, "webhook_verify", c)>>
                /\ Remember
                /\ UNCHANGED <<adapters, default_adapter, insertedBefore,
                               lastRegistered, expected_signature>>

(* ------------------- StripeAdapter, called directly ------------------- *)

\* What __init__ can be given as api_key and as webhook_secret.
ApiKeys == {None, "", "  ", "sk_a", "sk_b"}
WebhookSecrets == {"", "  ", "whsec_1"}

\* not s or not s.strip()
Blank(s) == Falsy(s) \/ s = "  "

\* stripe.max_network_retries = 2
MaxNetworkRetries == 2

\* stripe.api_version = "2024-12-18.acacia"
ApiVersion == "2024-12-18.acacia"

\* The process-wide settings of the stripe module.
StripeSettings ==
    [api_key |-> stripe_api_key,
     max_network_retries |-> stripe_max_network_retries,
     api_version |-> stripe_api_version]

\* A constructor that configures the stripe module first and validates its
\* arguments afterwards.
StripeInitConfigureFirst(api_key, secret, settings) ==
    LET configured == [api_key |-> api_key,
                       max_network_retries |-> MaxNetworkRetries,
                       api_version |-> ApiVersion]
    IN  IF Blank(api_key) \/ Blank(secret)
        THEN [kind |-> "ValueError", settings |-> configured,
              webhook_secret |-> None]
        ELSE [kind |-> "ok", settings |-> configured,
              webhook_secret |-> secret]

\* StripeAdapter.__init__: the outcome, the stripe module's settings after
\* it, and self.webhook_secret.
StripeInit(api_key, secret, settings) ==
    IF Blank(api_key)
    THEN [kind |-> "ValueError", settings |-> settings,
          webhook_secret |-> None]
    ELSE IF Blank(secret)
    THEN [kind |-> "ValueError", settings |-> settings,
          webhook_secret |-> None]
    ELSE [kind |-> "ok",
          settings |-> [api_key |-> api_key,
                        max_network_retries |-> MaxNetworkRetries,
                        api_version |-> ApiVersion],
          webhook_secret |-> secret]

\* The calls of StripeAdapter leave the registry and the CustomAdapter alone.
ManagerIdle ==
    /\ invoked' = <<>>
    /\ trace' = <<>>
    /\ Remember
    /\ UNCHANGED <<adapters, default_adapter, insertedBefore, lastRegistered,
                   expected_signature, config>>

\* StripeAdapter(api_key, webhook_secret), bound to a fresh name.
stripe_adapter_init(instance, api_key, secret) ==
    LET out == StripeInit(api_key, secret, StripeSettings)
    IN  /\ webhook_secret[instance] = None
        /\ call' = [NoCall EXCEPT !.op = "StripeAdapter",
                                  !.instance = instance,
                                  !.api_key = api_key,
                                  !.webhook_secret = secret]
        /\ result' = IF out.kind = "ok"
                     THEN [NoResult EXCEPT !.adapter = instance]
                     ELSE Raise(out.kind)
        /\ stripe_api_key' = out.settings.api_key
        /\ stripe_max_network_retries' = out.settings.max_network_retries
        /\ stripe_api_version' = out.settings.api_version
        /\ webhook_secret' =
               [webhook_secret EXCEPT ![instance] = out.webhook_secret]
        /\ constructed_with' =
               IF out.kind = "ok"
               THEN [constructed_with EXCEPT ![instance] = api_key]
               ELSE constructed_with
        /\ requests' = <<>>
        /\ ManagerIdle
        /\ UNCHANGED <<customers, inflight>>

\* An Optional[Decimal] argument: <<>> when the caller leaves it out (None),
\* <<a>> when the caller passes a.
OptAmounts == {<<>>, <<0>>, <<10>>}

\* bool(amount): None and Decimal("0") are false.
AmountTruthy(opt) == opt # <<>> /\ opt[1] # 0

\* if amount: data["amount"] = int(amount)
AmountField(opt) == IF AmountTruthy(opt) THEN <<ToInt(opt[1])>> ELSE <<>>

\* The SDK sends a request again, up to stripe.max_network_retries times,
\* after a connection error or a 5xx answer.
Retryable(outcome) == outcome \in {"APIConnectionError", "StripeError"}

\* An SDK that goes through its retries twice over.
AttemptCountsRepeated(outcome, retries) ==
    IF Retryable(outcome) THEN {2 * (1 + retries)} ELSE 1..(1 + retries)

\* How many times the SDK can have sent a request that ended this way.
AttemptCounts(outcome, retries) ==
    IF Retryable(outcome) THEN {1 + retries} ELSE 1..(1 + retries)

\* One request as the processor sees it: the SDK call, the API key the SDK
\* read from stripe.api_key, the object addressed, the amount field (<<>>:
\* none), the number of times it was sent, and metadata["kyc_bypassed"]
\* where the request has it.
Request(api, target, amount, attempts) ==
    [api |-> api, api_key |-> stripe_api_key, target |-> target,
     amount |-> amount, attempts |-> attempts, kyc_bypassed |-> None]

\* StripeAdapter.reverse_transfer
StripeReverseTransfer(transfer_id, outcome) ==
    IF outcome = "ok"
    THEN [NoResult EXCEPT !.id = "trr_1"]
    ELSE Raise("PaymentError")

\* StripeAdapter.create_payout
StripeCreatePayout(connect_account_id, outcome) ==
    IF outcome = "ok"
    THEN [NoResult EXCEPT !.id = "po_1", !.status = "pending"]
    ELSE Raise("PaymentError")

\* The call, its result and the requests it sent.
Sent(c, r, reqs) ==
    /\ call' = c
    /\ result' = r
    /\ requests' = reqs

\* A method of a constructed StripeAdapter changes nothing but what it
\* sends.
StripeKeeps ==
    /\ ManagerIdle
    /\ UNCHANGED <<stripe_api_key, stripe_max_network_retries,
                   stripe_api_version, webhook_secret, constructed_with,
                   customers, inflight>>

\* StripeAdapter.create_payment(amount, currency, customer_id), called on
\* the instance itself.
stripe_create_payment(instance, amount, currency, customer_id) ==
    /\ webhook_secret[instance] # None
    /\ \E outcome \in ProcessorOutcomes :
         \E attempts \in AttemptCounts(outcome, stripe_max_network_retries) :
            Sent([NoCall EXCEPT !.op = "StripeAdapter.create_payment",
                                !.instance = instance,
                                !.amount = amount,
                                !.currency = currency,
                                !.customer_id = customer_id,
                                !.outcome = outcome],
                 StripeCreatePayment(amount, currency, customer_id, outcome),
                 <<Request("PaymentIntent.create", customer_id,
                           <<ToInt(amount)>>, attempts)>>)
    /\ StripeKeeps

\* StripeAdapter.refund_payment(payment_intent_id, amount)
stripe_refund_payment(instance, payment_intent_id, opt_amount) ==
    /\ webhook_secret[instance] # None
    /\ \E outcome \in ProcessorOutcomes :
         \E attempts \in AttemptCounts(outcome, stripe_max_network_retries) :
            Sent([NoCall EXCEPT !.op = "StripeAdapter.refund_payment",
                                !.instance = instance,
                                !.payment_id = payment_intent_id,
                                !.opt_amount = opt_amount,
                                !.outcome = outcome],
                 StripeRefundPayment(payment_intent_id, outcome),
                 <<Request("Refund.create", payment_intent_id,
                           AmountField(opt_amount), attempts)>>)
    /\ StripeKeeps

\* StripeAdapter.reverse_transfer(transfer_id, amount)
reverse_transfer(instance, transfer_id, opt_amount) ==
    /\ webhook_secret[instance] # None
    /\ \E outcome \in ProcessorOutcomes :
         \E attempts \in AttemptCounts(outcome, stripe_max_network_retries) :
            Sent([NoCall EXCEPT !.op = "StripeAdapter.reverse_transfer",
                                !.instance = instance,
                                !.payment_id = transfer_id,
                                !.opt_amount = opt_amount,
                                !.outcome = outcome],
                 StripeReverseTransfer(transfer_id, outcome),
                 <<Request("Transfer.create_reversal", transfer_id,
                           AmountField(opt_amount), attempts)>>)
    /\ StripeKeeps

\* StripeAdapter.create_payout(connect_account_id, amount)
create_payout(instance, connect_account_id, opt_amount) ==
    /\ webhook_secret[instance] # None
    /\ \E outcome \in ProcessorOutcomes :
         \E attempts \in AttemptCounts(outcome, stripe_max_network_retries) :
            Sent([NoCall EXCEPT !.op = "StripeAdapter.create_payout",
                                !.instance = instance,
                                !.payment_id = connect_account_id,
                                !.opt_amount = opt_amount,
                                !.outcome = outcome],
                 StripeCreatePayout(connect_account_id, outcome),
                 <<Request("Payout.create", connect_account_id,
                           AmountField(opt_amount), attempts)>>)
    /\ StripeKeeps

\* str(b) for a bool
BoolStr(b) == IF b THEN "True" ELSE "False"

\* A create_connect_account that skips onboarding when either flag is set.
StripeConnectEitherFlag(bypass_kyc, admin_override, outcome, link_outcome) ==
    LET bypass == bypass_kyc \/ admin_override
        account == [api |-> "Account.create",
                    kyc_bypassed |-> BoolStr(bypass)]
        link == [api |-> "AccountLink.create", kyc_bypassed |-> None]
    IN  IF outcome # "ok"
        THEN [result |-> Raise("PaymentError"), sent |-> <<account>>]
        ELSE IF bypass
        THEN [result |-> [NoResult EXCEPT !.id = "acct_1"],
              sent |-> <<account>>]
        ELSE IF link_outcome # "ok"
        THEN [result |-> Raise("PaymentError"), sent |-> <<account, link>>]
        ELSE [result |-> [NoResult EXCEPT
                              !.id = "acct_1",
                              !.onboarding_url = "https://connect/setup"],
              sent |-> <<account, link>>]

\* StripeAdapter.create_connect_account: the result and the SDK calls made,
\* in order, given how the processor answers stripe.Account.create and
\* stripe.AccountLink.create.
StripeCreateConnectAccount(bypass_kyc, admin_override, outcome, link_outcome) ==
    LET account == [api |-> "Account.create",
                    kyc_bypassed |-> BoolStr(bypass_kyc /\ admin_override)]
        link == [api |-> "AccountLink.create", kyc_bypassed |-> None]
    IN  IF outcome # "ok"
        THEN [result |-> Raise("PaymentError"), sent |-> <<account>>]
        ELSE IF ~(bypass_kyc /\ admin_override)
        THEN IF link_outcome # "ok"
             THEN [result |-> Raise("PaymentError"),
                   sent |-> <<account, link>>]
             ELSE [result |-> [NoResult EXCEPT
                                  !.id = "acct_1",
                                  !.onboarding_url = "https://connect/setup"],
                   sent |-> <<account, link>>]
        ELSE [result |-> [NoResult EXCEPT !.id = "acct_1"],
              sent |-> <<account>>]

\* How stripe.AccountLink.create can end.
LinkOutcomes == {"ok", "APIConnectionError"}

\* StripeAdapter.create_connect_account(recipient_id, email, country,
\* bypass_kyc=..., admin_override=...)
create_connect_account(instance, bypass_kyc, admin_override) ==
    /\ webhook_secret[instance] # None
    /\ \E outcome \in ProcessorOutcomes, link_outcome \in LinkOutcomes :
         \E attempts \in AttemptCounts(outcome, stripe_max_network_retries) :
            LET run == StripeCreateConnectAccount(bypass_kyc, admin_override,
                                                  outcome, link_outcome)
            IN  Sent([NoCall EXCEPT !.op = "StripeAdapter.create_connect_account",
                                    !.instance = instance,
                                    !.bypass_kyc = bypass_kyc,
                                    !.admin_override = admin_override,
                                    !.outcome = outcome,
                                    !.link_outcome = link_outcome],
                     run.result,
                     [i \in 1..Len(run.sent) |->
                        [Request(run.sent[i].api, "rcp_1", <<>>,
                                 IF i = 1 THEN attempts
                                 ELSE CHOOSE n \in AttemptCounts(
                                          link_outcome,
                                          stripe_max_network_retries) : TRUE)
                         EXCEPT !.kyc_bypassed = run.sent[i].kyc_bypassed]])
    /\ StripeKeeps

(* ------------------ StripeAdapter: customers -------------------------- *)

Emails == {"a@x.io", "b@x.io"}
UserIds == {"u1"}

\* The customers of the processor that have this email, newest first, as
\* stripe.Customer.list(email=email) returns them.
CustomersWithEmail(store, email) ==
    LET hits == SelectSeq(store, LAMBDA cu : cu.email = email)
    IN  [i \in 1..Len(hits) |-> hits[Len(hits) + 1 - i]]

\* A lookup that never finds a customer.
CustomerLookupNothing(store, email) == None

\* customers.data[0].id of stripe.Customer.list(email=email, limit=1), None
\* when customers.data is empty.
CustomerLookup(store, email) ==
    IF CustomersWithEmail(store, email) = <<>> THEN None
    ELSE CustomersWithEmail(store, email)[1].id

\* stripe.Customer.create(**customer_data) at the processor
CustomerCreate(store, user_id, email) ==
    Append(store, [id |-> "cus_" \o ToString(Len(store) + 1),
                   email |-> email, user_id |-> user_id])

\* stripe.Customer.modify(id, **customer_data) at the processor
CustomerModify(store, id, user_id, email) ==
    [i \in 1..Len(store) |->
        IF store[i].id = id
        THEN [store[i] EXCEPT !.email = email, !.user_id = user_id]
        ELSE store[i]]

\* The second half of create_or_update_customer: modify the customer found
\* or create one, then return it.
CustomerWrite(store, found, user_id, email, outcome) ==
    IF outcome # "ok"
    THEN [result |-> Raise("PaymentError"), store |-> store,
          api |-> IF found # None THEN "Customer.modify"
                  ELSE "Customer.create"]
    ELSE IF found # None
    THEN [result |-> [NoResult EXCEPT !.id = found],
          store |-> CustomerModify(store, found, user_id, email),
          api |-> "Customer.modify"]
    ELSE [result |-> [NoResult EXCEPT
                         !.id = "cus_" \o ToString(Len(store) + 1)],
          store |-> CustomerCreate(store, user_id, email),
          api |-> "Customer.create"]

\* How a customer request can end.
CustomerOutcomes == {"ok", "APIConnectionError"}

\* StripeAdapter.create_or_update_customer(user_id, email), run from its
\* first statement to its last with no other caller in between.
create_or_update_customer(instance, user_id, email) ==
    /\ webhook_secret[instance] # None
    /\ Len(customers) < MaxCustomers
    /\ \E list_outcome \in CustomerOutcomes, outcome \in CustomerOutcomes :
         LET c == [NoCall EXCEPT
                      !.op = "StripeAdapter.create_or_update_customer",
                      !.instance = instance, !.user_id = user_id,
                      !.email = email, !.link_outcome = list_outcome,
                      !.outcome = outcome]
             list == Request("Customer.list", email, <<>>, 1)
             found == CustomerLookup(customers, email)
             write == CustomerWrite(customers, found, user_id, email, outcome)
         IN  IF list_outcome # "ok"
             THEN /\ Sent([c EXCEPT !.outcome = None],
                          Raise("PaymentError"), <<list>>)
                  /\ UNCHANGED customers
             ELSE /\ Sent(c, write.result,
                          <<list, Request(write.api, email, <<>>, 1)>>)
                  /\ customers' = write.store
    /\ ManagerIdle
    /\ UNCHANGED <<stripe_api_key, stripe_max_network_retries,
                   stripe_api_version, webhook_secret, constructed_with,
                   inflight>>

\* PaymentAdapter.list_payments, which both adapters inherit
BaseListPayments(limit) == Raise("NotImplementedError")

\* adapter.get_payment_status(payment_id), called on the adapter itself.
adapter_get_payment_status(adapter, payment_id) ==
    LET c0 == [NoCall EXCEPT !.op = "adapter.get_payment_status",
                             !.adapter = adapter, !.payment_id = payment_id]
    IN  \E outcome \in Outcomes(adapter, "get_payment_status", c0) :
            LET c == [c0 EXCEPT !.outcome = outcome]
                run == AdapterCall(adapter, "get_payment_status", c,
                                   expected_signature)
            IN  /\ call' = c
                /\ result' = run.result
                /\ trace' = run.trace
                /\ invoked' = <<Invocation(adapter, "get_payment_status", c)>>
                /\ Remember
                /\ UNCHANGED <<adapters, default_adapter, insertedBefore,
                               lastRegistered, expected_signature>>

\* adapter.list_payments(limit), called on the adapter itself.
adapter_list_payments(adapter, limit) ==
    LET c == [NoCall EXCEPT !.op = "adapter.list_payments",
                            !.adapter = adapter, !.amount = limit]
    IN  /\ call' = c
        /\ result' = BaseListPayments(limit)
        /\ trace' = <<>>
        /\ invoked' = <<Invocation(adapter, "list_payments", c)>>
        /\ Remember
        /\ UNCHANGED <<adapters, default_adapter, insertedBefore,
                       lastRegistered, expected_signature>>

\* The first half of create_or_update_customer, run by one caller:
\* stripe.Customer.list(email=email, limit=1).
customer_lookup(caller, instance, user_id, email) ==
    /\ webhook_secret[instance] # None
    /\ inflight[caller].step = "idle"
    /\ \E list_outcome \in CustomerOutcomes :
         LET c == [NoCall EXCEPT
                      !.op = "StripeAdapter.create_or_update_customer",
                      !.name = caller, !.instance = instance,
                      !.user_id = user_id, !.email = email,
                      !.link_outcome = list_outcome]
         IN  /\ requests' = <<Request("Customer.list", email, <<>>, 1)>>
             /\ IF list_outcome # "ok"
                THEN /\ call' = c
                     /\ result' = Raise("PaymentError")
                     /\ UNCHANGED inflight
                ELSE /\ inflight' =
                          [inflight EXCEPT ![caller] =
                              [step |-> "listed", email |-> email,
                               user_id |-> user_id,
                               found |-> CustomerLookup(customers, email)]]
                     /\ UNCHANGED <<call, result>>
    /\ ManagerIdle
    /\ UNCHANGED <<stripe_api_key, stripe_max_network_retries,
                   stripe_api_version, webhook_secret, constructed_with,
                   customers>>

\* The second half, run by the same caller after any steps of the others:
\* stripe.Customer.modify or stripe.Customer.create, and the return.
customer_write(caller, instance) ==
    /\ inflight[caller].step = "listed"
    /\ Len(customers) < MaxCustomers
    /\ \E outcome \in CustomerOutcomes :
         LET at == inflight[caller]
             write == CustomerWrite(customers, at.found, at.user_id,
                                    at.email, outcome)
         IN  /\ Sent([NoCall EXCEPT
                         !.op = "StripeAdapter.create_or_update_customer",
                         !.name = caller, !.instance = instance,
                         !.user_id = at.user_id, !.email = at.email,
                         !.link_outcome = "ok", !.outcome = outcome],
                     write.result,
                     <<Request(write.api, at.email, <<>>, 1)>>)
             /\ customers' = write.store
    /\ inflight' = [inflight EXCEPT ![caller] = NoLookup]
    /\ ManagerIdle
    /\ UNCHANGED <<stripe_api_key, stripe_max_network_retries,
                   stripe_api_version, webhook_secret, constructed_with>>

(* ----------------- AdapterManager convenience methods ----------------- *)

\* A resolution that ignores adapter_name and always takes the default.
ManagerResolveDefaultOnly(d, def, adapter_name) == GetAdapter(d, def, None)

\* adapter = self.get_adapter(adapter_name)
ManagerResolve(d, def, adapter_name) == GetAdapter(d, def, adapter_name)

\* The convenience methods: resolve, then await the adapter's method.
ManagerOps == {"create_payment", "capture_payment", "refund_payment",
               "cancel_payment", "webhook_verify", "get_payment_status"}

ManagerDelegate(op, c0) ==
    LET r == ManagerResolve(adapters, default_adapter, c0.name)
    IN  IF r.kind # "ok"
        THEN /\ call' = c0
             /\ result' = r
             /\ invoked' = <<>>
             /\ trace' = <<>>
        ELSE \E outcome \in Outcomes(r.adapter, op, c0) :
                 LET c == [c0 EXCEPT !.outcome = outcome]
                     run == AdapterCall(r.adapter, op, c, expected_signature)
                 IN  /\ call' = c
                     /\ result' = run.result
                     /\ invoked' = <<Invocation(r.adapter, op, c)>>
                     /\ trace' = run.trace

ManagerLeavesRegistry ==
    /\ Remember
    /\ UNCHANGED <<adapters, default_adapter, insertedBefore, lastRegistered,
                   expected_signature>>

\* AdapterManager.create_payment
create_payment(amount, currency, adapter_name, customer_id) ==
    /\ ManagerDelegate("create_payment",
           [NoCall EXCEPT !.op = "create_payment", !.name = adapter_name,
                          !.amount = amount, !.currency = currency,
                          !.customer_id = customer_id])
    /\ ManagerLeavesRegistry

\* AdapterManager.capture_payment
capture_payment(payment_id, adapter_name) ==
    /\ ManagerDelegate("capture_payment",
           [NoCall EXCEPT !.op = "capture_payment", !.name = adapter_name,
                          !.payment_id = payment_id])
    /\ ManagerLeavesRegistry

\* AdapterManager.refund_payment
refund_payment(payment_id, adapter_name) ==
    /\ ManagerDelegate("refund_payment",
           [NoCall EXCEPT !.op = "refund_payment", !.name = adapter_name,
                          !.payment_id = payment_id])
    /\ ManagerLeavesRegistry

\* AdapterManager.cancel_payment
cancel_payment(payment_id, adapter_name) ==
    /\ ManagerDelegate("cancel_payment",
           [NoCall EXCEPT !.op = "cancel_payment", !.name = adapter_name,
                          !.payment_id = payment_id])
    /\ ManagerLeavesRegistry

\* AdapterManager.webhook_verify
webhook_verify(payload, sig_header, adapter_name) ==
    /\ ManagerDelegate("webhook_verify",
           [NoCall EXCEPT !.op = "webhook_verify", !.name = adapter_name,
                          !.payload = payload, !.sig_header = sig_header])
    /\ ManagerLeavesRegistry

\* AdapterManager.get_payment_status
get_payment_status(payment_id, adapter_name) ==
    /\ ManagerDelegate("get_payment_status",
           [NoCall EXCEPT !.op = "get_payment_status", !.name = adapter_name,
                          !.payment_id = payment_id])
    /\ ManagerLeavesRegistry

(* ----------------------------- service startup ------------------------ *)

\* The values config.STRIPE_SECRET_KEY and config.STRIPE_WEBHOOK_SECRET can
\* have (None: not set).
ConfigSecretKeys == ApiKeys
ConfigWebhookSecrets == WebhookSecrets \cup {None}

\* The StripeAdapter that startup_event constructs; the registry holds it as
\* the object stripe_adapter.
StartupInstance == "stripe_1"

\* A startup that registers the CustomAdapter first and the StripeAdapter
\* after it, without the default flag.
StartupOutcomeCustomFirst(d, def, settings, secret_key, secret) ==
    LET attempted == ~Falsy(secret_key) /\ ~Falsy(secret)
        init == StripeInit(secret_key, secret, settings)
        constructed == attempted /\ init.kind = "ok"
        r1 == RegisterOutcome(d, def, "custom", "custom_adapter", FALSE)
        r2 == IF constructed
              THEN RegisterOutcome(r1.adapters, r1.default, "stripe",
                                   "stripe_adapter", FALSE)
              ELSE r1
    IN  [adapters |-> r2.adapters, default |-> r2.default,
         settings |-> IF attempted THEN init.settings ELSE settings,
         webhook_secret |-> IF attempted THEN init.webhook_secret ELSE None,
         constructed |-> constructed]

\* startup_event: the registry and the stripe module's settings it leaves.
\* The StripeAdapter is constructed only when both credentials are truthy,
\* and registered (as the default) only when its constructor did not raise;
\* the CustomAdapter is registered after it, without the flag.
StartupOutcome(d, def, settings, secret_key, secret) ==
    LET attempted == ~Falsy(secret_key) /\ ~Falsy(secret)
        init == StripeInit(secret_key, secret, settings)
        constructed == attempted /\ init.kind = "ok"
        r1 == IF constructed
              THEN RegisterOutcome(d, def, "stripe", "stripe_adapter", TRUE)
              ELSE [kind |-> "ok", adapters |-> d, default |-> def]
        r2 == RegisterOutcome(r1.adapters, r1.default, "custom",
                              "custom_adapter", FALSE)
    IN  [adapters |-> r2.adapters, default |-> r2.default,
         settings |-> IF attempted THEN init.settings ELSE settings,
         webhook_secret |-> IF attempted THEN init.webhook_secret ELSE None,
         constructed |-> constructed]

\* startup_event(), run once on the manager the module has just constructed.
startup_event(secret_key, secret) ==
    LET out == StartupOutcome(adapters, default_adapter, StripeSettings,
                              secret_key, secret)
    IN  /\ ~config.started
        /\ adapters = <<>>
        /\ config' = [started |-> TRUE, STRIPE_SECRET_KEY |-> secret_key,
                      STRIPE_WEBHOOK_SECRET |-> secret]
        /\ adapters' = out.adapters
        /\ default_adapter' = out.default
        /\ stripe_api_key' = out.settings.api_key
        /\ stripe_max_network_retries' = out.settings.max_network_retries
        /\ stripe_api_version' = out.settings.api_version
        /\ webhook_secret' =
               [webhook_secret EXCEPT ![StartupInstance] = out.webhook_secret]
        /\ constructed_with' =
               IF out.constructed
               THEN [constructed_with EXCEPT ![StartupInstance] = secret_key]
               ELSE constructed_with
        /\ expected_signature' = "test_signature"
        /\ call' = [NoCall EXCEPT !.op = "startup_event",
                                  !.api_key = secret_key,
                                  !.webhook_secret = secret]
        /\ result' = NoResult
        /\ Remember
        /\ invoked' = <<>>
        /\ trace' = <<>>
        /\ insertedBefore' =
               {<<out.adapters[p[1]].name, out.adapters[p[2]].name>> :
                   p \in {q \in (1..Len(out.adapters))
                                 \X (1..Len(out.adapters)) : q[1] < q[2]}}
        /\ lastRegistered' =
               [k \in RegistryKeys |->
                   IF HasKey(out.adapters, k) THEN DictGet(out.adapters, k)
                   ELSE None]
        /\ UNCHANGED <<requests, customers, inflight>>

(* ---------------------- one manager, call by call --------------------- *)

\* What the journal keeps of a call and its result.
JournalEntry(c, r) ==
    [op |-> c.op, name |-> c.name, adapter |-> c.adapter, flag |-> c.flag,
     amount |-> c.amount, currency |-> c.currency,
     payment_id |-> c.payment_id, kind |-> r.kind, returned |-> r.adapter,
     id |-> r.id, status |-> r.status, email |-> c.email,
     payload |-> c.payload, sig_header |-> c.sig_header, type |-> r.type,
     data |-> r.data]

\* The call that has just run is added to the journal.
Journaled ==
    /\ Len(journal) < MaxJournal
    /\ journal' = Append(journal, JournalEntry(call', result'))

(* ------------------------------ claims -------------------------------- *)

\* Keys with an adapter registered and not removed since, by the history.
RegisteredKeys == {k \in RegistryKeys : lastRegistered[k] # None}

\* C1: starting from an empty manager, the first successful register_adapter
\* call makes that adapter the default, with set_as_default true or false.
C1_FirstRegistrationIsDefault ==
    (call.op = "register_adapter" /\ result.kind = "ok"
        /\ Len(before.adapters) = 0)
    => /\ default_adapter = Lower(call.name)
       /\ GetAdapter(adapters, default_adapter, None).kind = "ok"
       /\ GetAdapter(adapters, default_adapter, None).adapter = call.adapter

\* C1 happens: a first registration without the flag has made "custom" default.
C1_Witness ==
    /\ call.op = "register_adapter" /\ result.kind = "ok"
    /\ Len(before.adapters) = 0 /\ ~call.flag
    /\ call.name = "Custom" /\ default_adapter = "custom"

\* C2: with a default already set, register_adapter with set_as_default=false
\* never changes the default, for a new name or a name already registered.
C2_NoFlagKeepsDefault ==
    (call.op = "register_adapter" /\ ~call.flag /\ ~Falsy(before.default))
    => default_adapter = before.default

\* C2 happens: a name that is registered and is not the default has been
\* registered again without the flag.
C2_Witness ==
    /\ call.op = "register_adapter" /\ result.kind = "ok" /\ ~call.flag
    /\ HasKey(before.adapters, Lower(call.name))
    /\ DictGet(before.adapters, Lower(call.name)) # call.adapter
    /\ before.default # Lower(call.name)
    /\ default_adapter = before.default

\* C3: get_adapter(None) fails with ValidationError when no adapter is
\* registered; when exactly one is, it returns that adapter instance.
C3_GetDefaultAdapter ==
    (call.op = "get_adapter" /\ call.name = None)
    => /\ RegisteredKeys = {} => result.kind = "ValidationError"
       /\ \A k \in RegistryKeys :
              RegisteredKeys = {k}
              => result.kind = "ok" /\ result.adapter = lastRegistered[k]

\* C3 happens: get_adapter(None) has returned the only registered adapter.
C3_Witness ==
    /\ call.op = "get_adapter" /\ call.name = None
    /\ Cardinality(RegisteredKeys) = 1
    /\ result.kind = "ok" /\ result.adapter = "custom_adapter"

\* C4: removing the default promotes the earliest-inserted remaining adapter;
\* removing the last adapter leaves no default, and get_adapter(None) then
\* fails with ValidationError; removing a non-default keeps the default.
C4_RemovePromotesEarliest ==
    (call.op = "remove_adapter" /\ result.kind = "ok")
    => IF before.default = Lower(call.name)
       THEN IF RegisteredKeys = {}
            THEN /\ default_adapter = None
                 /\ GetAdapter(adapters, default_adapter, None).kind
                        = "ValidationError"
            ELSE /\ default_adapter \in RegisteredKeys
                 /\ \A k \in RegisteredKeys \ {default_adapter} :
                        <<default_adapter, k>> \in insertedBefore
       ELSE default_adapter = before.default

\* C4 happens: the default was removed while two others were registered.
C4_Witness ==
    /\ call.op = "remove_adapter" /\ result.kind = "ok"
    /\ before.default = Lower(call.name)
    /\ Cardinality(RegisteredKeys) = 2
    /\ default_adapter \in RegisteredKeys

\* C5: after any sequence of register_adapter and remove_adapter calls the
\* default is unset exactly when the registry is empty, and otherwise names
\* an adapter that is registered.
C5_DefaultIffNonEmpty ==
    /\ default_adapter = None <=> Len(adapters) = 0
    /\ default_adapter # None => HasKey(adapters, default_adapter)
    /\ KeySet(adapters) = RegisteredKeys

\* C5 happens: a failed removal on a registry of three adapters whose default
\* is not the first one registered.
C5_Witness ==
    /\ call.op = "remove_adapter" /\ result.kind = "ValidationError"
    /\ Len(adapters) = 3
    /\ default_adapter # adapters[1].name

\* C6: get_adapter(name), name not None, returns the adapter most recently
\* registered under that name ignoring case, and fails with ValidationError
\* exactly when none is; has_adapter(name) is true exactly when
\* get_adapter(name) would succeed.
C6_GetByName ==
    /\ (call.op = "get_adapter" /\ call.name # None)
       => IF Lower(call.name) \in RegisteredKeys
          THEN /\ result.kind = "ok"
               /\ result.adapter = lastRegistered[Lower(call.name)]
          ELSE result.kind = "ValidationError"
    /\ call.op = "has_adapter"
       => result.bool = (Lower(call.name) \in RegisteredKeys)
    /\ \A n \in Names :
           HasAdapter(adapters, n)
               <=> GetAdapter(adapters, default_adapter, n).kind = "ok"

\* C6 happens: a mixed-case lookup has returned the adapter that replaced an
\* earlier one under the same name.
C6_Witness ==
    /\ call.op = "get_adapter" /\ call.name = "Custom"
    /\ result.kind = "ok" /\ result.adapter = "stripe_adapter"
    /\ Len(adapters) = 2 /\ adapters[2].name = "custom"

\* C7: a rejected registry mutation changes nothing: register_adapter with an
\* empty name or a non-PaymentAdapter raises ValueError, remove_adapter of an
\* unregistered name raises ValidationError, and the registered adapters and
\* the default are as before the call.
C7_RejectedMutationChangesNothing ==
    /\ call.op = "register_adapter"
       => /\ (Falsy(call.name) \/ ~IsPaymentAdapter(call.adapter))
              <=> result.kind = "ValueError"
          /\ result.kind \in {"ok", "ValueError"}
    /\ call.op = "remove_adapter"
       => /\ ~HasKey(before.adapters, Lower(call.name))
              <=> result.kind = "ValidationError"
          /\ result.kind \in {"ok", "ValidationError"}
    /\ (call.op \in {"register_adapter", "remove_adapter"}
            /\ result.kind # "ok")
       => /\ adapters = before.adapters
          /\ default_adapter = before.default

\* C7 happens: an object that is not a PaymentAdapter was refused under a name
\* that is registered.
C7_Witness ==
    /\ call.op = "register_adapter" /\ call.adapter = NotAdapter
    /\ result.kind = "ValueError"
    /\ HasKey(adapters, Lower(call.name))

\* C8: a convenience method called with adapter name n behaves as
\* get_adapter(n) followed by the same method of the resolved adapter: a
\* failed resolution raises ValidationError and runs no adapter; otherwise
\* one adapter method runs once with the same arguments, its result or error
\* is relayed unchanged, and the registry and the default are not modified.
C8_ConvenienceDelegates ==
    call.op \in ManagerOps
    => LET r == GetAdapter(before.adapters, before.default, call.name)
       IN  /\ adapters = before.adapters
           /\ default_adapter = before.default
           /\ IF r.kind # "ok"
              THEN result.kind = "ValidationError" /\ invoked = <<>>
              ELSE /\ Len(invoked) = 1
                   /\ invoked[1].adapter = r.adapter
                   /\ invoked[1].op = call.op
                   /\ invoked[1].amount = call.amount
                   /\ invoked[1].currency = call.currency
                   /\ invoked[1].customer_id = call.customer_id
                   /\ invoked[1].payment_id = call.payment_id
                   /\ invoked[1].payload = call.payload
                   /\ invoked[1].sig_header = call.sig_header
                   /\ result = AdapterCall(r.adapter, call.op, call,
                                           expected_signature).result

\* C8 happens: a refund named "Custom" went to the CustomAdapter while the
\* default was "stripe".
C8_Witness ==
    /\ call.op = "refund_payment" /\ call.name = "Custom"
    /\ default_adapter = "stripe"
    /\ Len(adapters) = 2
    /\ DictGet(adapters, "stripe") = "stripe_adapter"
    /\ Len(invoked) = 1 /\ invoked[1].adapter = "custom_adapter"
    /\ result.kind = "ok" /\ result.status = "refunded"

\* C9: for every amount <= 0 and every registered adapter, create_payment
\* fails with ValidationError and no payment is created.
C9_NonPositiveAmountRejected ==
    (call.op = "create_payment" /\ call.amount <= 0 /\ Len(invoked) = 1)
    => result.kind = "ValidationError" /\ result.id = None

\* The steps of webhook_verify that check the signature, and those that
\* decode or read the payload.
VerifySteps == {"check_signature", "construct_event"}
ParseSteps == {"decode", "json_loads", "extract"}

\* The header is missing, or is not the one the adapter accepts.
SignatureBad(adapter, payload, sig_header) ==
    \/ Falsy(sig_header)
    \/ adapter \in CustomAdapters /\ sig_header # expected_signature
    \/ adapter \in StripeAdapters /\ ~StripeSignatureValid(payload, sig_header)

\* C10: in every execution of webhook_verify, on either adapter, the
\* signature is verified before any decoding or parsing of the payload; with
\* a missing or invalid signature the call ends in an error and no payload
\* step has run.
C10_VerifyBeforeParse ==
    call.op = "adapter.webhook_verify"
    => /\ Len(trace) >= 1 /\ trace[1] \in VerifySteps
       /\ \A i \in 1..Len(trace) :
              trace[i] \in ParseSteps
              => \E j \in 1..(i - 1) : trace[j] \in VerifySteps
       /\ SignatureBad(call.adapter, call.payload, call.sig_header)
          => /\ result.kind # "ok"
             /\ \A i \in 1..Len(trace) : trace[i] \notin ParseSteps

\* C10 happens: the CustomAdapter refused a wrong signature on a body that is
\* not UTF-8, having only compared the signature.
C10_Witness ==
    /\ call.op = "adapter.webhook_verify"
    /\ call.adapter = "custom_adapter"
    /\ call.sig_header = "wrong" /\ call.payload = "bad_utf8"
    /\ result.kind = "WebhookError"
    /\ trace = <<"check_signature">>

\* The last call is webhook_verify on the CustomAdapter itself.
CustomVerifyCall ==
    call.op = "adapter.webhook_verify" /\ call.adapter \in CustomAdapters

\* The event the CustomAdapter returns carries the body's type and data.
EventOfPayload ==
    /\ result.kind = "ok"
    /\ result.type = PayloadType(call.payload)
    /\ result.data = PayloadData(call.payload)

\* C11 as stated: CustomAdapter.webhook_verify with the configured expected
\* signature and a JSON object body returns the event with the body's type
\* and data; with any other signature, or with the signature omitted or
\* empty, it fails with WebhookError. An adapter configured with the empty
\* expected signature refuses the empty signature, so the first half fails.
C11_ExpectedSignatureAccepted ==
    CustomVerifyCall
    => /\ (call.sig_header = expected_signature
           /\ PayloadIsObject(call.payload))
          => EventOfPayload
       /\ (call.sig_header # expected_signature \/ Falsy(call.sig_header))
          => result.kind = "WebhookError"

\* C11, amended: CustomAdapter.webhook_verify with a non-empty signature
\* equal to the configured expected signature and a JSON object body returns
\* the event with the body's type and data; with any other signature, or
\* with the signature omitted or empty (whatever the configured one), it
\* fails with WebhookError.
C11_NonEmptyExpectedSignatureAccepted ==
    CustomVerifyCall
    => /\ (call.sig_header = expected_signature /\ ~Falsy(call.sig_header)
           /\ PayloadIsObject(call.payload))
          => EventOfPayload
       /\ (call.sig_header # expected_signature \/ Falsy(call.sig_header))
          => result.kind = "WebhookError"

\* C11 happens: the body {"type":"ping","data":{"x":1}} with the expected
\* signature "test_signature" came back as the event ping / {x: 1}.
C11_Witness ==
    /\ CustomVerifyCall
    /\ expected_signature = "test_signature"
    /\ call.sig_header = "test_signature" /\ call.payload = "ping"
    /\ result.kind = "ok" /\ result.type = "ping" /\ result.data = "{x: 1}"

\* The body is not UTF-8, or not JSON, or JSON that is not an object.
PayloadBad(p) == ~PayloadIsUtf8(p) \/ ~PayloadIsJson(p) \/ ~PayloadIsObject(p)

\* C12: CustomAdapter.webhook_verify with a correct signature raises
\* WebhookError, and no other error, for every bad body: bytes that are not
\* UTF-8, text that is not JSON, JSON that is not an object.
C12_BadPayloadIsWebhookError ==
    (/\ CustomVerifyCall
     /\ call.sig_header = expected_signature /\ ~Falsy(call.sig_header)
     /\ PayloadBad(call.payload))
    => result.kind = "WebhookError"

\* The last call is webhook_verify on the StripeAdapter itself.
StripeVerifyCall ==
    call.op = "adapter.webhook_verify" /\ call.adapter \in StripeAdapters

\* C13: StripeAdapter.webhook_verify fails with WebhookError, and with no
\* other error, whenever the signature is missing or invalid or the body is
\* malformed.
C13_StripeVerifyFailsWithWebhookError ==
    (/\ StripeVerifyCall
     /\ \/ SignatureBad(call.adapter, call.payload, call.sig_header)
        \/ PayloadBad(call.payload))
    => result.kind = "WebhookError"

\* The subclasses of PaymentError.
TaxonomyKinds ==
    {"ValidationError", "InsufficientFundsError", "PaymentNotFoundError",
     "PaymentProcessingError", "RefundError", "WebhookError",
     "RateLimitError", "AuthenticationError"}

\* The abstract methods of PaymentAdapter.
RequiredOps ==
    {"create_payment", "capture_payment", "refund_payment", "cancel_payment",
     "webhook_verify"}

\* C14: every failure of an adapter operation is one of the eight subclasses
\* of PaymentError; no processor exception, built-in exception or bare
\* PaymentError leaves an adapter. (Stated for the five required operations,
\* which no adapter may leave unimplemented, called with the arguments
\* their signatures require.)
C14_FailuresAreTaxonomyKinds ==
    (/\ Len(invoked) = 1 /\ invoked[1].op \in RequiredOps
     /\ ~(/\ invoked[1].adapter \in StripeAdapters
          /\ invoked[1].op = "create_payment"
          /\ invoked[1].customer_id = Absent)
     /\ result.kind # "ok")
    => result.kind \in TaxonomyKinds

\* The last call reached this method of the StripeAdapter and the processor
\* answered the request with an error.
StripeFailure(op) ==
    /\ Len(invoked) = 1
    /\ invoked[1].adapter \in StripeAdapters /\ invoked[1].op = op
    /\ call.outcome \in ProcessorOutcomes \ {"ok"}

\* C15: StripeAdapter.create_payment raises InsufficientFundsError when the
\* processor declines the payment (CardError) and PaymentProcessingError for
\* every other processor failure.
C15_CreateFailureKinds ==
    StripeFailure("create_payment")
    => IF ErrorClass(call.outcome) = "CardError"
       THEN result.kind = "InsufficientFundsError"
       ELSE result.kind = "PaymentProcessingError"

\* C16: StripeAdapter.capture_payment gives each processor failure exactly
\* one kind, in this priority: a not-found answer is PaymentNotFoundError;
\* otherwise an invalid request is ValidationError; otherwise a credential
\* failure is AuthenticationError; otherwise PaymentProcessingError.
C16_CaptureFailurePriority ==
    StripeFailure("capture_payment")
    => result.kind =
         IF HttpStatus(call.outcome) = 404 THEN "PaymentNotFoundError"
         ELSE IF ErrorClass(call.outcome) = "InvalidRequestError"
         THEN "ValidationError"
         ELSE IF ErrorClass(call.outcome) = "AuthenticationError"
         THEN "AuthenticationError"
         ELSE "PaymentProcessingError"

\* C16 happens: the processor answered a capture with an invalid-request
\* error carrying http_status 404, and the adapter reported not-found.
C16_Witness ==
    /\ StripeFailure("capture_payment")
    /\ call.outcome = "InvalidRequestError404"
    /\ result.kind = "PaymentNotFoundError"

\* The kind C17 gives a processor failure: not-found, then invalid request,
\* then the method's own kind.
KindOfFailure(outcome, otherwise) ==
    IF HttpStatus(outcome) = 404 THEN "PaymentNotFoundError"
    ELSE IF ErrorClass(outcome) = "InvalidRequestError" THEN "ValidationError"
    ELSE otherwise

\* C17: on the StripeAdapter, refund_payment and cancel_payment report a
\* payment id the processor does not know as PaymentNotFoundError, a wrong
\* status or bad amount as ValidationError, and any other failure as
\* RefundError (refund) or PaymentProcessingError (cancel).
C17_RefundCancelFailureKinds ==
    /\ StripeFailure("refund_payment")
       => result.kind = KindOfFailure(call.outcome, "RefundError")
    /\ StripeFailure("cancel_payment")
       => result.kind = KindOfFailure(call.outcome, "PaymentProcessingError")

\* The operations that move a payment through its life cycle.
PaymentOps ==
    {"create_payment", "capture_payment", "refund_payment", "cancel_payment"}

\* C18: the status of every successful result of create_payment,
\* capture_payment, refund_payment or cancel_payment, on either adapter, is
\* one of pending, processing, authorized, completed, failed, cancelled,
\* refunded, partially_refunded.
C18_StatusIsNormalized ==
    (Len(invoked) = 1 /\ invoked[1].op \in PaymentOps /\ result.kind = "ok")
    => result.status \in NormalizedStatuses

\* C19: on a fresh manager, once "custom" is registered without the default
\* flag, get_adapter() returns that adapter, create_payment(10, "usd")
\* returns status created, and capture_payment and refund_payment of the id
\* it returned come back with status captured and refunded, each result
\* carrying that same id.
C19_EndToEnd ==
    (/\ Len(journal) >= 1
     /\ journal[1].op = "register_adapter" /\ journal[1].name = "custom"
     /\ journal[1].adapter \in CustomAdapters /\ ~journal[1].flag)
    => /\ journal[1].kind = "ok"
       /\ \A i \in 2..Len(journal) :
            LET e == journal[i]
            IN  /\ (e.op = "get_adapter" /\ e.name = None)
                   => e.kind = "ok" /\ e.returned = journal[1].adapter
                /\ (e.op = "create_payment" /\ e.amount = 10
                    /\ e.currency = "usd")
                   => e.kind = "ok" /\ e.status = "created" /\ e.id # None
                /\ \A k \in 2..(i - 1) :
                     (/\ journal[k].op = "create_payment"
                      /\ journal[k].kind = "ok"
                      /\ e.payment_id = journal[k].id)
                     => /\ e.op = "capture_payment"
                           => /\ e.kind = "ok" /\ e.status = "captured"
                              /\ e.id = journal[k].id
                        /\ e.op = "refund_payment"
                           => /\ e.kind = "ok" /\ e.status = "refunded"
                              /\ e.id = journal[k].id

\* C19 happens: register, get_adapter, create_payment, capture_payment and
\* refund_payment ran in this order on a fresh manager.
C19_Witness ==
    /\ Len(journal) = 5
    /\ journal[1].op = "register_adapter" /\ journal[1].name = "custom"
    /\ journal[1].adapter = "custom_adapter" /\ ~journal[1].flag
    /\ journal[2].op = "get_adapter" /\ journal[2].returned = "custom_adapter"
    /\ journal[3].op = "create_payment" /\ journal[3].amount = 10
    /\ journal[3].status = "created" /\ journal[3].id = "custom_mock"
    /\ journal[4].op = "capture_payment"
    /\ journal[4].payment_id = journal[3].id
    /\ journal[4].status = "captured" /\ journal[4].id = journal[3].id
    /\ journal[5].op = "refund_payment"
    /\ journal[5].payment_id = journal[3].id
    /\ journal[5].status = "refunded" /\ journal[5].id = journal[3].id

\* The states from which each operation is accepted: capture and cancel from
\* created or authorized, refund from captured or later.
AcceptedFrom(op) ==
    CASE op = "capture_payment" -> {"created", "authorized"}
      [] op = "cancel_payment" -> {"created", "authorized"}
      [] op = "refund_payment" -> {"captured", "partially_refunded", "refunded"}
      [] OTHER -> {}

\* The state the results returned so far put payment pid in after the first
\* n calls of the journal ("none": no create_payment has returned it).
RECURSIVE StateAfter(_, _)
StateAfter(pid, n) ==
    IF n = 0 THEN "none"
    ELSE LET e == journal[n]
             prev == StateAfter(pid, n - 1)
         IN  IF e.kind # "ok" THEN prev
             ELSE IF e.op = "create_payment" /\ e.id = pid THEN "created"
             ELSE IF e.op \in PaymentOps /\ e.payment_id = pid
             THEN CASE e.op = "capture_payment" -> "captured"
                    [] e.op = "refund_payment" -> "refunded"
                    [] e.op = "cancel_payment" -> "cancelled"
                    [] OTHER -> prev
             ELSE prev

\* C20: over any sequence of operations on one payment id, capture is
\* accepted only from created or authorized, cancel only from created or
\* authorized, refund only from captured or later; an operation attempted
\* from any other state of the payment is rejected with ValidationError and
\* returns no success result.
C20_LifecycleRespected ==
    \A i \in 1..Len(journal) :
        LET e == journal[i]
            state == StateAfter(e.payment_id, i - 1)
        IN  (/\ e.op \in {"capture_payment", "refund_payment",
                          "cancel_payment"}
             /\ state # "none"
             /\ state \notin AcceptedFrom(e.op))
            => e.kind = "ValidationError"

\* The methods of StripeAdapter that take an optional amount.
OptAmountOps ==
    {"StripeAdapter.refund_payment", "StripeAdapter.reverse_transfer",
     "StripeAdapter.create_payout"}

\* C21: for refund_payment, reverse_transfer and create_payout on the
\* StripeAdapter, the request sent to the processor carries an amount
\* exactly when the caller supplied one, and then that amount: an omitted
\* amount gives a request without the field, and a supplied amount, zero
\* included, is never turned into the omitted case.
C21_AmountSentIffSupplied ==
    (call.op \in OptAmountOps /\ Len(requests) = 1)
    => requests[1].amount = call.opt_amount

\* The SDK calls the last call made, in order.
ApisSent == [i \in 1..Len(requests) |-> requests[i].api]

CustomerCalls(email) ==
    {i \in 1..Len(journal) :
        /\ journal[i].op = "StripeAdapter.create_or_update_customer"
        /\ journal[i].email = email /\ journal[i].kind = "ok"}

\* The customers the processor holds for this email.
HeldFor(email) ==
    {i \in 1..Len(customers) : customers[i].email = email}

\* C23: after any sequence of create_or_update_customer calls made one
\* after another, the processor holds exactly one customer for an email
\* some call succeeded for (none for the others): the first such call
\* created it, and every later one updated it and returned the same id.
C23_OneCustomerPerEmail ==
    \A email \in Emails :
        /\ Cardinality(HeldFor(email)) =
               IF CustomerCalls(email) = {} THEN 0 ELSE 1
        /\ \A i \in CustomerCalls(email) :
               \A k \in HeldFor(email) : journal[i].id = customers[k].id

\* C23 happens: three calls for a@x.io succeeded one after another and all
\* returned the one customer the processor holds.
C23_Witness ==
    /\ Cardinality(CustomerCalls("a@x.io")) = 3
    /\ Cardinality(HeldFor("a@x.io")) = 1
    /\ call.op = "StripeAdapter.create_or_update_customer"
    /\ requests[2].api = "Customer.modify"

\* C24: constructing a StripeAdapter with an empty or whitespace-only API
\* key or webhook secret fails in the constructor, before stripe.api_key,
\* stripe.max_network_retries or stripe.api_version is touched; with neither
\* of them blank the construction succeeds and configures the stripe module.
C24_ConstructionFailsFast ==
    [][call'.op = "StripeAdapter"
       => IF Blank(call'.api_key) \/ Blank(call'.webhook_secret)
          THEN /\ result'.kind = "ValueError"
               /\ UNCHANGED <<stripe_api_key, stripe_max_network_retries,
                              stripe_api_version, webhook_secret>>
          ELSE /\ result'.kind = "ok"
               /\ stripe_api_key' = call'.api_key
               /\ stripe_max_network_retries' = MaxNetworkRetries
               /\ stripe_api_version' = ApiVersion
               /\ webhook_secret'[call'.instance] = call'.webhook_secret]_vars

\* C24 happens: after an adapter was constructed with sk_a, a construction
\* with a whitespace-only key failed and stripe.api_key is still sk_a.
C24_Witness ==
    /\ call.op = "StripeAdapter"
    /\ call.api_key = "  " /\ call.webhook_secret = "whsec_1"
    /\ result.kind = "ValueError"
    /\ stripe_api_key = "sk_a"
    /\ webhook_secret[call.instance] = None

\* The capabilities an adapter may leave unimplemented.
OptionalOps == {"get_payment_status", "list_payments"}

\* C25: get_payment_status and list_payments never silently succeed on the
\* CustomAdapter, which implements neither: called on the adapter or
\* through the manager, they raise NotImplementedError and return nothing.
C25_OptionalOpsNotImplemented ==
    (/\ Len(invoked) = 1
     /\ invoked[1].adapter \in CustomAdapters
     /\ invoked[1].op \in OptionalOps)
    => result = Raise("NotImplementedError")

\* C25 happens: get_payment_status went through the manager to the
\* CustomAdapter and ended in NotImplementedError.
C25_Witness ==
    /\ call.op = "get_payment_status"
    /\ Len(invoked) = 1
    /\ invoked[1].adapter = "custom_adapter"
    /\ invoked[1].op = "get_payment_status"
    /\ result.kind = "NotImplementedError"

\* The last call was a method of a StripeAdapter that reached the processor.
StripeCalled == call.instance # None /\ Len(requests) >= 1

\* C26 as stated: no adapter operation is retried automatically; each call
\* results in at most one attempt of each processor request it makes, and a
\* failed attempt is reported without being sent again.
C26_NoAutomaticRetry ==
    StripeCalled
    => \A i \in 1..Len(requests) : requests[i].attempts <= 1

\* C26, amended: the adapter hands each processor request to the SDK once
\* and raises the failure the SDK reports without sending the request
\* again itself; the SDK, which the adapter configures with
\* max_network_retries = 2, attempts a request at most three times.
C26_AtMostThreeAttempts ==
    StripeCalled
    => /\ \A i \in 1..Len(requests) : requests[i].attempts \in 1..3
       /\ \A i, j \in 1..Len(requests) :
              requests[i].api = requests[j].api => i = j
       /\ call.outcome \notin {"ok", None} => result.kind # "ok"

\* C26 happens: a refund request met connection errors, was attempted three
\* times by the SDK, and the call ended in an error.
C26_Witness ==
    /\ call.op = "StripeAdapter.refund_payment"
    /\ call.outcome = "APIConnectionError"
    /\ Len(requests) = 1 /\ requests[1].attempts = 3
    /\ result.kind = "PaymentError"

\* C27: when create_or_update_customer calls for the same, not yet known
\* email are interleaved, each doing its lookup and then its create or
\* modify as separate requests, at most one customer is created for that
\* email.
C27_InterleavedCallsConverge ==
    \A email \in Emails : Cardinality(HeldFor(email)) <= 1

\* The webhook delivery that has just run is added to the journal.
Delivered ==
    /\ Len(journal) < MaxDeliveries
    /\ journal' = Append(journal, JournalEntry(call', result'))

\* Deliveries i and j of the journal handed the same body and signature
\* header to the same adapter.
SameDelivery(i, j) ==
    /\ journal[i].adapter = journal[j].adapter
    /\ journal[i].payload = journal[j].payload
    /\ journal[i].sig_header = journal[j].sig_header

\* C28: webhook_verify keeps no state and does not deduplicate. A body that
\* was accepted once is accepted at every delivery, each time with the same
\* event, and a delivery leaves the registry, the adapters and the stripe
\* module as they were.
C28_NoDeduplication ==
    /\ [](\A i, j \in 1..Len(journal) :
            (SameDelivery(i, j) /\ journal[i].kind = "ok")
            => /\ journal[j].kind = "ok"
               /\ journal[j].id = journal[i].id
               /\ journal[j].type = journal[i].type
               /\ journal[j].data = journal[i].data)
    /\ [][call'.op = "adapter.webhook_verify"
          => UNCHANGED <<adapters, default_adapter, expected_signature,
                         webhook_secret, stripe_api_key,
                         stripe_max_network_retries, stripe_api_version,
                         customers>>]_vars

\* C28 happens: the same signed body was delivered three times to the
\* CustomAdapter and came back three times as the same event.
C28_Witness ==
    /\ Len(journal) = 3
    /\ \A i \in 1..3 :
          /\ journal[i].adapter = "custom_adapter"
          /\ journal[i].payload = "ping"
          /\ journal[i].sig_header = "test_signature"
          /\ journal[i].kind = "ok" /\ journal[i].type = "ping"

\* C29: each StripeAdapter instance issues its processor requests with the
\* API key it was constructed with, whatever instances were constructed
\* after it.
C29_RequestsUseOwnKey ==
    StripeCalled
    => \A i \in 1..Len(requests) :
          requests[i].api_key = constructed_with[call.instance]

\* The manager calls the HTTP handlers make.
HandlerOps ==
    {"create_payment", "capture_payment", "refund_payment", "cancel_payment",
     "get_payment_status", "webhook_verify"}

Unjournaled == UNCHANGED journal

\* The calls of these specifications construct no StripeAdapter and send
\* nothing to the processor that the model follows.
StripeIdle ==
    UNCHANGED <<stripe_api_key, stripe_max_network_retries,
                stripe_api_version, webhook_secret, constructed_with,
                requests, customers, inflight, config>>

\* The registry under any sequence of calls.
Next ==
    \/ \E name \in Names \cup {None}, adapter \in Adapters \cup {NotAdapter},
          set_as_default \in BOOLEAN :
          register_adapter(name, adapter, set_as_default) /\ Unjournaled /\ StripeIdle
    \/ \E name \in Names : remove_adapter(name) /\ Unjournaled /\ StripeIdle
    \/ \E name \in Names \cup {None} : get_adapter(name) /\ Unjournaled /\ StripeIdle
    \/ \E name \in Names : has_adapter(name) /\ Unjournaled /\ StripeIdle
    \/ list_adapters /\ Unjournaled /\ StripeIdle

Spec == Init /\ [][Next]_vars

\* The convenience methods on a registry built from the two adapters of the
\* service, under the names the service uses, and the optional capabilities
\* called on the adapters themselves.
OpsNext ==
    \/ \E name \in {"custom", "stripe"}, adapter \in Adapters,
          set_as_default \in BOOLEAN :
          register_adapter(name, adapter, set_as_default) /\ Unjournaled /\ StripeIdle
    \/ \E name \in {"custom", "stripe"} : remove_adapter(name) /\ Unjournaled /\ StripeIdle
    \/ \E amount \in Amounts, currency \in Currencies,
          adapter_name \in {None, "Custom", "stripe", "backup1"},
          customer_id \in CustomerIds :
          create_payment(amount, currency, adapter_name, customer_id)
          /\ Unjournaled /\ StripeIdle
    \/ \E payment_id \in PaymentIds,
          adapter_name \in {None, "Custom", "stripe", "backup1"} :
          \/ capture_payment(payment_id, adapter_name) /\ Unjournaled /\ StripeIdle
          \/ refund_payment(payment_id, adapter_name) /\ Unjournaled /\ StripeIdle
          \/ cancel_payment(payment_id, adapter_name) /\ Unjournaled /\ StripeIdle
          \/ get_payment_status(payment_id, adapter_name) /\ Unjournaled /\ StripeIdle
    \/ \E payload \in {"ping", "stripe_event"},
          sig_header \in {"test_signature", "stripe_sig"},
          adapter_name \in {None, "Custom", "stripe", "backup1"} :
          webhook_verify(payload, sig_header, adapter_name) /\ Unjournaled /\ StripeIdle
    \/ \E adapter \in Adapters, payment_id \in PaymentIds :
          adapter_get_payment_status(adapter, payment_id)
          /\ Unjournaled /\ StripeIdle
    \/ \E adapter \in Adapters :
          adapter_list_payments(adapter, 10) /\ Unjournaled /\ StripeIdle

OpsSpec == Init /\ [][OpsNext]_vars

\* webhook_verify called on each adapter, with CustomAdapter constructed
\* with any expected signature.
WebhookNext ==
    \/ \E sig \in SigHeaders \ {None} : custom_adapter_init(sig) /\ Unjournaled /\ StripeIdle
    \/ \E adapter \in Adapters, payload \in Payloads,
          sig_header \in SigHeaders :
          adapter_webhook_verify(adapter, payload, sig_header)
          /\ Unjournaled /\ StripeIdle

WebhookSpec == Init /\ [][WebhookNext]_vars

\* One manager followed call by call: the CustomAdapter registered as
\* "custom", and payments made, captured, refunded and cancelled through the
\* default adapter.
LifecycleNext ==
    \/ \E adapter \in CustomAdapters, set_as_default \in BOOLEAN :
          register_adapter("custom", adapter, set_as_default) /\ Journaled /\ StripeIdle
    \/ get_adapter(None) /\ Journaled /\ StripeIdle
    \/ \E currency \in Currencies :
          create_payment(10, currency, None, Absent) /\ Journaled /\ StripeIdle
    \/ \E payment_id \in PaymentIds :
          \/ capture_payment(payment_id, None) /\ Journaled /\ StripeIdle
          \/ refund_payment(payment_id, None) /\ Journaled /\ StripeIdle
          \/ cancel_payment(payment_id, None) /\ Journaled /\ StripeIdle

LifecycleSpec == Init /\ [][LifecycleNext]_vars

\* StripeAdapter objects constructed and called directly, the processor
\* answering each request in any way.
StripeNext ==
    \/ \E instance \in StripeInstances, api_key \in ApiKeys,
          secret \in WebhookSecrets :
          stripe_adapter_init(instance, api_key, secret) /\ Unjournaled
    \/ \E instance \in StripeInstances, opt_amount \in OptAmounts :
          \/ stripe_refund_payment(instance, "pi_1", opt_amount)
             /\ Unjournaled
          \/ reverse_transfer(instance, "tr_1", opt_amount) /\ Unjournaled
          \/ create_payout(instance, "acct_1", opt_amount) /\ Unjournaled
    \/ \E instance \in StripeInstances :
          stripe_create_payment(instance, 10, "usd", "cus_1") /\ Unjournaled
    \/ \E instance \in StripeInstances, bypass_kyc \in BOOLEAN,
          admin_override \in BOOLEAN :
          create_connect_account(instance, bypass_kyc, admin_override)
          /\ Unjournaled

StripeSpec == Init /\ [][StripeNext]_vars

\* One StripeAdapter whose create_or_update_customer is called again and
\* again, each call finishing before the next starts.
CustomerNext ==
    \/ stripe_adapter_init("stripe_1", "sk_a", "whsec_1") /\ Journaled
    \/ \E user_id \in UserIds, email \in Emails :
          create_or_update_customer("stripe_1", user_id, email) /\ Journaled

CustomerSpec == Init /\ [][CustomerNext]_vars

\* Two callers inside create_or_update_customer at the same time, their
\* processor requests interleaved in any order.
RaceNext ==
    \/ stripe_adapter_init("stripe_1", "sk_a", "whsec_1") /\ Unjournaled
    \/ \E caller \in Callers, user_id \in UserIds, email \in Emails :
          customer_lookup(caller, "stripe_1", user_id, email) /\ Unjournaled
    \/ \E caller \in Callers :
          customer_write(caller, "stripe_1") /\ Unjournaled

RaceSpec == Init /\ [][RaceNext]_vars

\* Webhook deliveries to the two adapters, one after another: bodies that
\* verify and bodies that do not, each possibly more than once.
DeliveryNext ==
    \E adapter \in Adapters, payload \in {"ping", "stripe_event"},
       sig_header \in {"test_signature", "stripe_sig"} :
       adapter_webhook_verify(adapter, payload, sig_header)
       /\ Delivered /\ StripeIdle

DeliverySpec == Init /\ [][DeliveryNext]_vars

\* The service: startup_event once, then the calls the HTTP handlers make on
\* the manager, which register and remove nothing.
StartupNext ==
    \/ \E secret_key \in ConfigSecretKeys, secret \in ConfigWebhookSecrets :
          startup_event(secret_key, secret) /\ Unjournaled
    \/ config.started /\ list_adapters /\ Unjournaled /\ StripeIdle
    \/ \E adapter_name \in {None, "stripe", "custom"},
          customer_id \in CustomerIds :
          /\ config.started
          /\ create_payment(10, "usd", adapter_name, customer_id)
          /\ Unjournaled /\ StripeIdle
    \/ \E payment_id \in PaymentIds,
          adapter_name \in {None, "stripe", "custom"} :
          \/ config.started /\ capture_payment(payment_id, adapter_name)
             /\ Unjournaled /\ StripeIdle
          \/ config.started /\ refund_payment(payment_id, adapter_name)
             /\ Unjournaled /\ StripeIdle
          \/ config.started /\ cancel_payment(payment_id, adapter_name)
             /\ Unjournaled /\ StripeIdle
          \/ config.started /\ get_payment_status(payment_id, adapter_name)
             /\ Unjournaled /\ StripeIdle
    \/ \E payload \in {"ping", "stripe_event"},
          sig_header \in {"test_signature", "stripe_sig"},
          adapter_name \in {"stripe", "custom"} :
          /\ config.started
          /\ webhook_verify(payload, sig_header, adapter_name)
          /\ Unjournaled /\ StripeIdle

StartupSpec == Init /\ [][StartupNext]_vars

====
